---- MODULE Spec2Model ----
(***************************************************************************)
(* prometheus-nacos: a scheduler (main.py) that every ten seconds runs one *)
(* discovery cycle (nacos_discovery.main): authenticate against the Nacos  *)
(* registry, list the services, list the instances of each service, build *)
(* one Prometheus scrape target per instance, write the targets as JSON to *)
(* ./app/services.json and copy that file into ./prometheus/conf.          *)
(*                                                                         *)
(* The registry and the filesystem are the environment: every HTTP         *)
(* response and every I/O outcome is an input of the action that makes the *)
(* call.  Exceptions are propagated through the try/except blocks that     *)
(* enclose the point where they are raised (HandlerChain, Unwind).         *)
(***************************************************************************)
EXTENDS Integers, Sequences, FiniteSets, TLC

VARIABLES
    sched,        \* position of run_scheduler / the process
    pc,           \* position inside discovery_job and nacos_discovery.main
    exitCode,     \* exit status of the process once it has exited
    signalled,    \* a SIGINT/SIGTERM has been delivered
    elapsed,      \* seconds slept since the scheduled job was last due
    exc,          \* the exception last raised: its class and where it was raised
    token,        \* NacosConfig.token of the cycle's config object
    services,     \* main: services
    idx,          \* main: position of the for loop in services
    instances,    \* main: instances of services[idx]
    all_targets,  \* main: all_targets
    files,        \* the content of each path of FilePaths
    watchDir,     \* the directory ./prometheus/conf exists
    before,       \* history: the filesystem as it was when the cycle began
    resp,         \* history: the responses the cycle has received so far
    world         \* the registry and I/O outcomes when they are held fixed

procVars == <<sched, pc, exitCode, signalled, elapsed, exc>>
locals == <<services, idx, instances, all_targets>>
fsVars == <<files, watchDir>>
vars == <<sched, pc, exitCode, signalled, elapsed, exc, token, services, idx,
          instances, all_targets, files, watchDir, before, resp, world>>

----------------------------------------------------------------------------
(* Bounds of the inputs. *)

\* longest service listing the registry returns to a standalone cycle
MaxSvcs == 2
\* cycles the scheduler runs against a fixed world
MaxRuns == 2
\* most instances the registry returns for one service to a standalone cycle
MaxInst == 2

(* Program constants. *)

\* schedule.every(10).seconds
Interval == 10

----------------------------------------------------------------------------
(* Sequences. *)

SeqsUpTo(S, n) == UNION {[1..k -> S] : k \in 0..n}

DistinctSeqs(S, n) ==
    {s \in SeqsUpTo(S, n) : \A i, j \in DOMAIN s : i # j => s[i] # s[j]}

----------------------------------------------------------------------------
(* The registry's data. *)

\* a healthy instance, an unhealthy one, and a record without 'port'
InstUp == [ip |-> "10.0.0.5", port |-> 8080, healthy |-> TRUE]
InstDown == [ip |-> "10.0.0.6", port |-> 9090, healthy |-> FALSE]
InstNoPort == [ip |-> "10.0.0.7", healthy |-> TRUE]

ServiceNames == {"svc-a", "svc-b", "svc-c"}

\* python None, as the value of a missing 'accessToken'
NoneToken == "<None>"

\* the kinds of outcome of one HTTP call: the transport fails, the status is
\* not 2xx, or a 2xx response with a JSON body arrives
Failures == {"transport", "http"}

AuthResponses ==
    [kind : Failures, token : {NoneToken}]
        \cup [kind : {"body"}, token : {NoneToken, "", "tok-1", "tok-2"}]

ServicesResponses(lists) ==
    [kind : Failures, doms : {<<>>}] \cup [kind : {"body"}, doms : lists]

InstancesResponses(lists) ==
    [kind : Failures, hosts : {<<>>}] \cup [kind : {"body"}, hosts : lists]

----------------------------------------------------------------------------
(* Python's exception classes, as the sets of the concrete classes raised   *)
(* here that are instances of each.                                          *)

\* requests.exceptions.RequestException: ConnectionError and HTTPError
RequestException == {"ConnectionError", "HTTPError"}
\* IOError is OSError, and RequestException derives from IOError
OSError == {"OSError"} \cup RequestException
Exception == OSError \cup {"ValueError", "KeyError"}
\* SystemExit and KeyboardInterrupt derive from BaseException only
KeyboardInterrupt == {"KeyboardInterrupt"}

\* the exception a failed HTTP call raises: session.post/get on a transport
\* failure, raise_for_status on a status that is not 2xx
RaisedBy(kind) == IF kind = "transport" THEN "ConnectionError" ELSE "HTTPError"

NoExc == [type |-> "none", at |-> "off"]

(* The except clauses: what each catches, and what it does then.  A clause *)
(* of a function main() calls runs within the step of the failing call;    *)
(* main's own clause (lines 215-217) and discovery_job's (lines 53-54) are *)
(* positions of their own.                                                  *)

\* mutant: the login error is logged and not raised again
authenticate_except_silent ==
    [catches |-> RequestException, then |-> "return_none"]

authenticate_except == [catches |-> RequestException, then |-> "reraise"]
\* mutant: the listing error is logged and raised again
get_services_except_raising ==
    [catches |-> RequestException, then |-> "reraise"]

get_services_except == [catches |-> RequestException, then |-> "return_empty"]
\* mutant: the lookup error is logged and raised again
get_service_instances_except_raising ==
    [catches |-> RequestException, then |-> "reraise"]

get_service_instances_except ==
    [catches |-> RequestException, then |-> "return_empty"]
save_config_except == [catches |-> OSError, then |-> "reraise"]
main_except == [catches |-> Exception, then |-> "log_and_reraise"]
\* mutant: a bare except clause, which catches SystemExit too
discovery_job_except_bare ==
    [catches |-> Exception \cup {"SystemExit", "KeyboardInterrupt"},
     then |-> "swallow"]

\* mutant: only the HTTP client's errors are caught
discovery_job_except_narrow ==
    [catches |-> RequestException, then |-> "swallow"]

discovery_job_except == [catches |-> Exception, then |-> "swallow"]
run_scheduler_except == [catches |-> KeyboardInterrupt, then |-> "exit0"]

Handler(h) ==
    CASE h = "authenticate" -> authenticate_except
      [] h = "get_services" -> get_services_except
      [] h = "get_service_instances" -> get_service_instances_except
      [] h = "save_config" -> save_config_except
      [] h = "main" -> main_except
      [] h = "discovery_job" -> discovery_job_except
      [] h = "run_scheduler" -> run_scheduler_except

\* positions of main() that lie inside save_config's try block
PublishSteps == {"makedirs", "open", "dump", "copy_open", "copy_write"}

\* positions inside main()'s try block
TrySteps ==
    {"authenticate", "get_services", "get_service_instances",
     "generate_target_config", "main_done"} \cup PublishSteps

\* the try blocks around position p of main(), innermost first
InnerChain(p) ==
    CASE p \in {"authenticate", "get_services", "get_service_instances"} ->
             <<p, "main">>
      [] p \in PublishSteps -> <<"save_config", "main">>
      [] p \in {"generate_target_config", "main_done"} -> <<"main">>
      [] OTHER -> <<>>

\* positions inside main(): its try block and its except clause
MainSteps == TrySteps \cup {"main_except"}

\* the try blocks around the caller of main() / of the scheduler loop
OuterChain(p, s) ==
    CASE s \in {"job72", "job76"} /\ p \in MainSteps ->
             <<"discovery_job", "run_scheduler">>
      [] s \in {"job72", "job76"} -> <<"run_scheduler">>
      [] s \in {"start", "pending", "sleep"} -> <<"run_scheduler">>
      [] OTHER -> <<>>

HandlerChain(p, s) == InnerChain(p) \o OuterChain(p, s)

\* the handler that ends the propagation of exception class e, or "uncaught"
RECURSIVE Unwind(_, _)
Unwind(chain, e) ==
    IF chain = <<>> THEN "uncaught"
    ELSE IF e \in Handler(Head(chain)).catches
            /\ Handler(Head(chain)).then # "reraise"
         THEN Head(chain)
         ELSE Unwind(Tail(chain), e)

\* the status the interpreter exits with on an exception nobody caught:
\* SystemExit carries sys.exit's argument, a traceback gives 1
ExitStatus(e, code) == IF e = "SystemExit" THEN code ELSE 1

----------------------------------------------------------------------------
(* generate_target_config and the file format. *)

Address(instance) == instance.ip \o ":" \o ToString(instance.port)

ScrapeTarget(instance, service_name) ==
    [targets |-> <<Address(instance)>>,
     labels |-> [instance |-> Address(instance),
                 job |-> "nacos-discovery",
                 service |-> service_name]]

\* instance['ip'] or instance['port'] raises KeyError
MissingField(instance) == ~({"ip", "port"} \subseteq DOMAIN instance)

\* the for loop of generate_target_config: the targets, or the KeyError
RECURSIVE TargetLoop(_, _, _)
TargetLoop(insts, service_name, targets) ==
    IF insts = <<>> THEN [raised |-> FALSE, targets |-> targets]
    ELSE IF MissingField(Head(insts))
         THEN [raised |-> TRUE, targets |-> targets]
         ELSE TargetLoop(Tail(insts), service_name,
                         Append(targets, ScrapeTarget(Head(insts), service_name)))

\* mutant: records without 'ip' or 'port' are skipped instead of raising
RECURSIVE SkipLoop(_, _, _)
SkipLoop(insts, service_name, targets) ==
    IF insts = <<>> THEN [raised |-> FALSE, targets |-> targets]
    ELSE SkipLoop(Tail(insts), service_name,
                  IF MissingField(Head(insts)) THEN targets
                  ELSE Append(targets,
                              ScrapeTarget(Head(insts), service_name)))

generate_target_config_skipping(insts, service_name) ==
    SkipLoop(insts, service_name, <<>>)

\* mutant: only instances reported healthy become targets
generate_target_config_healthy(insts, service_name) ==
    TargetLoop(SelectSeq(insts, LAMBDA i : i.healthy), service_name, <<>>)

generate_target_config(insts, service_name) ==
    TargetLoop(insts, service_name, <<>>)

\* json.dump(..., indent=2) of one target, at nesting depth one
JsonTarget(t) ==
    "  {\n    \"targets\": [\n      \"" \o t.targets[1] \o "\"\n    ],\n"
    \o "    \"labels\": {\n      \"instance\": \"" \o t.labels.instance
    \o "\",\n      \"job\": \"" \o t.labels.job
    \o "\",\n      \"service\": \"" \o t.labels.service \o "\"\n    }\n  }"

\* the text json.dump has written once the first k targets are out
RECURSIVE JsonItems(_, _)
JsonItems(targets, k) ==
    IF k = 0 THEN ""
    ELSE IF k = 1 THEN "[\n" \o JsonTarget(targets[1])
    ELSE JsonItems(targets, k - 1) \o ",\n" \o JsonTarget(targets[k])

\* json.dump(targets, f, indent=2)
JsonDump(targets) ==
    IF targets = <<>> THEN "[]" ELSE JsonItems(targets, Len(targets)) \o "\n]"

----------------------------------------------------------------------------
(* Files. *)

\* a path is the sequence of its components
output_path == <<".", "app", "services.json">>
config_dir == <<".", "prometheus", "conf">>

\* os.path.basename and os.path.join
basename(path) == path[Len(path)]
join(dir, name) == Append(dir, name)

\* mutant: the copy is named after the working file's directory
dest_path_of_dirname == join(config_dir, output_path[Len(output_path) - 1])

\* save_config, line 182
dest_path == join(config_dir, basename(output_path))

\* the paths of the filesystem that are followed: the working file and the
\* two names a copy in the watched directory could get
FilePaths ==
    {<<".", "app", "services.json">>,
     <<".", "prometheus", "conf", "services.json">>,
     <<".", "prometheus", "conf", "app">>}

Absent == [exists |-> FALSE, text |-> ""]
File(text) == [exists |-> TRUE, text |-> text]

\* mutant: the file is opened for appending
OpenedForAppend(old) == IF old.exists THEN old ELSE File("")

\* open(path, 'w'), and shutil.copy's open of its destination: the file is
\* created, or cut to length zero
OpenedForWrite(old) == File("")

\* f.write(text) on the open file: text follows what the file holds
Written(old, text) == File(old.text \o text)

\* shutil.copy: the destination receives the bytes of the source
Copied(src, dst) == File(dst.text \o src.text)

\* the working file, and the file Prometheus reads in the watched directory
workFile == files[<<".", "app", "services.json">>]
watchFile == files[<<".", "prometheus", "conf", "services.json">>]

\* the filesystem as a cycle finds it
Snapshot == [files |-> files, dir |-> watchDir]

----------------------------------------------------------------------------
(* The history of a cycle and the fixed world. *)

NoResponse == [kind |-> "none"]
NoResponses ==
    [auth |-> NoResponse, svc |-> NoResponse, inst |-> <<>>, sent |-> {}]

\* the registry is free to answer differently at every call
Unpinned == [pinned |-> FALSE]

\* a fixed world remembers the files each finished cycle left behind
Observed(w, snapshot) ==
    IF w.pinned THEN [w EXCEPT !.runs = Append(@, snapshot)] ELSE w

----------------------------------------------------------------------------
(* Raising, and leaving main(). *)

\* signal_handler: sys.exit(0)
SignalExitArg == 0

ResetLocals ==
    /\ services' = <<>>
    /\ idx' = 0
    /\ instances' = <<>>
    /\ all_targets' = <<>>

\* exception class e, first raised at position origin, is raised at the
\* current position: it travels up the enclosing try blocks to main's except
\* clause, to discovery_job's, to run_scheduler's, or out of the process
RaiseFrom(e, origin) ==
    LET h == Unwind(HandlerChain(pc, sched), e) IN
    /\ exc' = [type |-> e, at |-> origin]
    /\ ResetLocals
    /\ IF h \in {"main", "discovery_job"}
       THEN /\ pc' = IF h = "main" THEN "main_except" ELSE "job_except"
            /\ UNCHANGED <<sched, exitCode, world>>
       ELSE /\ pc' = "off"
            /\ sched' = "exited"
            /\ exitCode' = IF h = "run_scheduler" THEN 0
                           ELSE ExitStatus(e, SignalExitArg)
            /\ UNCHANGED world

Raise(e) == RaiseFrom(e, pc)

\* control returns from discovery_job to run_scheduler (line 72 or
\* schedule.run_pending, which then computes the job's next run), or from
\* main() to the end of the script; the cycle's config object and the
\* histories of the cycle end with it
Return ==
    /\ pc' = "off"
    /\ ResetLocals
    /\ token' = ""
    /\ exc' = NoExc
    /\ before' = Snapshot
    /\ resp' = NoResponses
    /\ world' = Observed(world, files)
    /\ CASE sched = "job72" ->
                sched' = "pending" /\ UNCHANGED <<elapsed, exitCode>>
         [] sched = "job76" ->
                sched' = "sleep" /\ elapsed' = 0 /\ UNCHANGED exitCode
         [] OTHER ->
                sched' = "exited" /\ exitCode' = 0 /\ UNCHANGED elapsed

\* discovery_job calls main(): a new NacosConfig (token "") and NacosClient
EnterMain(s) ==
    /\ sched' = s
    /\ pc' = "authenticate"
    /\ token' = ""
    /\ exc' = NoExc
    /\ before' = Snapshot
    /\ resp' = NoResponses
    /\ UNCHANGED <<exitCode, signalled, elapsed, locals, fsVars, world>>

----------------------------------------------------------------------------
(* main.py *)

\* run_scheduler, line 72: the first job, right after start
run_scheduler_first ==
    /\ sched = "start"
    /\ EnterMain("job72")

\* schedule.run_pending(), line 76, when the job is due
run_pending_due ==
    /\ sched = "pending"
    /\ elapsed >= Interval
    /\ EnterMain("job76")

\* schedule.run_pending(), line 76, when nothing is due
run_pending_idle ==
    /\ sched = "pending"
    /\ elapsed < Interval
    /\ sched' = "sleep"
    /\ UNCHANGED <<pc, exitCode, signalled, elapsed, exc, token, locals,
                   fsVars, before, resp, world>>

\* time.sleep(1), line 77
sleep ==
    /\ sched = "sleep"
    /\ sched' = "pending"
    /\ elapsed' = IF elapsed < Interval THEN elapsed + 1 ELSE elapsed
    /\ UNCHANGED <<pc, exitCode, signalled, exc, token, locals, fsVars,
                   before, resp, world>>

\* discovery_job's except clause, line 54: logs and returns
discovery_job_caught ==
    /\ pc = "job_except"
    /\ Return
    /\ UNCHANGED <<signalled, fsVars>>

\* SIGINT or SIGTERM arrives: signal_handler runs at the current position of
\* the main thread and raises SystemExit there
signal_handler ==
    /\ sched \in {"start", "job72", "job76", "pending", "sleep"}
    /\ signalled' = TRUE
    /\ Raise("SystemExit")
    /\ UNCHANGED <<elapsed, token, fsVars, before, resp>>

----------------------------------------------------------------------------
(* nacos_discovery.py: NacosClient *)

\* authenticate, lines 61-76, with the login response r
authenticate(r) ==
    /\ pc = "authenticate"
    /\ resp' = [resp EXCEPT !.auth = r]
    /\ token' = IF r.kind \in Failures THEN token ELSE r.token
    /\ LET e == IF r.kind \in Failures THEN RaisedBy(r.kind)
                ELSE IF r.token \in {NoneToken, ""} THEN "ValueError"
                     ELSE "none"
           h == IF e = "none" THEN "none"
                ELSE Unwind(HandlerChain(pc, sched), e)
       IN IF h \in {"none", "authenticate"}
          THEN \* authenticate returns to main, line 200
               /\ pc' = "get_services"
               /\ UNCHANGED <<sched, exitCode, exc, locals, world>>
          ELSE Raise(e)
    /\ UNCHANGED <<signalled, elapsed, fsVars, before>>

\* get_services, lines 85-102, with the listing response r
get_services(r) ==
    /\ pc = "get_services"
    /\ resp' = [resp EXCEPT !.svc = r, !.sent = @ \cup {token}]
    /\ LET h == IF r.kind \in Failures
                THEN Unwind(HandlerChain(pc, sched), RaisedBy(r.kind))
                ELSE "none"
           doms == IF h = "get_services" THEN <<>> ELSE r.doms
       IN IF h \in {"none", "get_services"}
          THEN \* main, lines 200-204
               /\ services' = doms
               /\ all_targets' = <<>>
               /\ idx' = 1
               /\ instances' = <<>>
               /\ pc' = IF doms = <<>> THEN "makedirs"
                        ELSE "get_service_instances"
               /\ UNCHANGED <<sched, exitCode, exc, world>>
          ELSE Raise(RaisedBy(r.kind))
    /\ UNCHANGED <<signalled, elapsed, token, fsVars, before>>

\* get_service_instances, lines 114-132, for services[idx] with response r
get_service_instances(r) ==
    /\ pc = "get_service_instances"
    /\ resp' = [resp EXCEPT !.inst = Append(@, r), !.sent = @ \cup {token}]
    /\ LET h == IF r.kind \in Failures
                THEN Unwind(HandlerChain(pc, sched), RaisedBy(r.kind))
                ELSE "none"
       IN IF h \in {"none", "get_service_instances"}
          THEN /\ instances' = IF h = "none" THEN r.hosts ELSE <<>>
               /\ pc' = "generate_target_config"
               /\ UNCHANGED <<sched, exitCode, exc, services, idx,
                              all_targets, world>>
          ELSE Raise(RaisedBy(r.kind))
    /\ UNCHANGED <<signalled, elapsed, token, fsVars, before>>

----------------------------------------------------------------------------
(* nacos_discovery.py: main's loop body and save_config *)

\* main, lines 206-207: build the service's targets and extend all_targets
main_extend ==
    /\ pc = "generate_target_config"
    /\ LET built == generate_target_config(instances, services[idx]) IN
       IF built.raised
       THEN Raise("KeyError")
       ELSE /\ all_targets' = all_targets \o built.targets
            /\ idx' = idx + 1
            /\ instances' = <<>>
            /\ pc' = IF idx + 1 > Len(services) THEN "makedirs"
                     ELSE "get_service_instances"
            /\ UNCHANGED <<sched, exitCode, exc, services, world>>
    /\ UNCHANGED <<signalled, elapsed, token, fsVars, before, resp>>

\* save_config, line 174: os.makedirs(config_dir, exist_ok=True); it cannot
\* fail on a directory that is there
makedirs(ok) ==
    /\ pc = "makedirs"
    /\ ok \/ ~watchDir
    /\ IF ok
       THEN /\ watchDir' = TRUE
            /\ pc' = "open"
            /\ UNCHANGED <<sched, exitCode, exc, locals, world>>
       ELSE /\ Raise("OSError")
            /\ UNCHANGED watchDir
    /\ UNCHANGED <<signalled, elapsed, token, files, before, resp>>

\* save_config, line 177: open(output_path, 'w')
open_output(ok) ==
    /\ pc = "open"
    /\ IF ok
       THEN /\ files' = [files EXCEPT
                           ![output_path] = OpenedForWrite(@)]
            /\ pc' = "dump"
            /\ UNCHANGED <<sched, exitCode, exc, locals, world>>
       ELSE /\ Raise("OSError")
            /\ UNCHANGED files
    /\ UNCHANGED <<signalled, elapsed, token, watchDir, before, resp>>

\* save_config, line 178: json.dump(targets, f, indent=2); a write may fail
\* once the first k targets are out
json_dump(ok, k) ==
    /\ pc = "dump"
    /\ IF ok
       THEN /\ k = Len(all_targets)
            /\ files' = [files EXCEPT
                           ![output_path] = Written(@, JsonDump(all_targets))]
            /\ pc' = "copy_open"
            /\ UNCHANGED <<sched, exitCode, exc, locals, world>>
       ELSE /\ k \in 0..Len(all_targets)
            /\ files' = [files EXCEPT
                           ![output_path] =
                               Written(@, JsonItems(all_targets, k))]
            /\ Raise("OSError")
    /\ UNCHANGED <<signalled, elapsed, token, watchDir, before, resp>>

\* save_config, line 183: shutil.copy opens the destination for writing
copy_open(ok) ==
    /\ pc = "copy_open"
    /\ IF ok
       THEN /\ files' = [files EXCEPT ![dest_path] = OpenedForWrite(@)]
            /\ pc' = "copy_write"
            /\ UNCHANGED <<sched, exitCode, exc, locals, world>>
       ELSE /\ Raise("OSError")
            /\ UNCHANGED files
    /\ UNCHANGED <<signalled, elapsed, token, watchDir, before, resp>>

\* save_config, line 183: shutil.copy transfers the source's bytes
copy_write(ok) ==
    /\ pc = "copy_write"
    /\ IF ok
       THEN /\ files' = [files EXCEPT
                           ![dest_path] = Copied(files[output_path], @)]
            /\ pc' = "main_done"
            /\ UNCHANGED <<sched, exitCode, exc, locals, world>>
       ELSE /\ Raise("OSError")
            /\ UNCHANGED files
    /\ UNCHANGED <<signalled, elapsed, token, watchDir, before, resp>>

\* main's except clause, lines 215-217: log and raise again
main_reraise ==
    /\ pc = "main_except"
    /\ RaiseFrom(exc.type, exc.at)
    /\ UNCHANGED <<signalled, elapsed, token, fsVars, before, resp>>

\* main, line 214, and discovery_job, line 52: log and return
main_return ==
    /\ pc = "main_done"
    /\ Return
    /\ UNCHANGED <<signalled, fsVars>>

----------------------------------------------------------------------------
(* The scheduler: python main.py. *)

\* what the registry may answer to a cycle run by the scheduler
SchedNames == {"svc-a", "svc-b"}
SchedServiceLists == DistinctSeqs(SchedNames, 2)
SchedInstanceLists == {<<>>, <<InstUp, InstDown>>, <<InstUp, InstNoPort>>}

\* the document an earlier run of the program left in both places
OldDocument == <<ScrapeTarget(InstUp, "svc-old")>>

\* the files a starting process may find: none, or an earlier run's
FreshFs == [work |-> Absent, dir |-> FALSE, watch |-> Absent]
UsedFs ==
    [work |-> File(JsonDump(OldDocument)), dir |-> TRUE,
     watch |-> File(JsonDump(OldDocument))]

\* the state at line 70 of run_scheduler (handlers installed, job scheduled)
\* or at line 195 of the script, with files fs and world w
Start(s, p, fs, w) ==
    /\ sched = s
    /\ pc = p
    /\ exitCode = -1
    /\ signalled = FALSE
    /\ elapsed = 0
    /\ exc = NoExc
    /\ token = ""
    /\ services = <<>>
    /\ idx = 0
    /\ instances = <<>>
    /\ all_targets = <<>>
    /\ files = [path \in FilePaths |->
                   IF path = <<".", "app", "services.json">> THEN fs.work
                   ELSE IF path =
                           <<".", "prometheus", "conf", "services.json">>
                        THEN fs.watch
                        ELSE Absent]
    /\ watchDir = fs.dir
    /\ before = Snapshot
    /\ resp = NoResponses
    /\ world = w

Init == \E fs \in {FreshFs, UsedFs} : Start("start", "off", fs, Unpinned)

Next ==
    \/ run_scheduler_first
    \/ run_pending_due
    \/ run_pending_idle
    \/ sleep
    \/ discovery_job_caught
    \/ signal_handler
    \/ \E r \in AuthResponses : authenticate(r)
    \/ \E r \in ServicesResponses(SchedServiceLists) : get_services(r)
    \/ \E r \in InstancesResponses(SchedInstanceLists) :
           get_service_instances(r)
    \/ main_extend
    \/ \E ok \in BOOLEAN : makedirs(ok)
    \/ \E ok \in BOOLEAN : open_output(ok)
    \/ \E ok \in BOOLEAN, k \in 0..Len(all_targets) : json_dump(ok, k)
    \/ \E ok \in BOOLEAN : copy_open(ok)
    \/ \E ok \in BOOLEAN : copy_write(ok)
    \/ main_reraise
    \/ main_return

Spec == Init /\ [][Next]_vars

\* the process is scheduled: the except clause of discovery_job, and the
\* loop of run_scheduler, which make no call that can block, go on
FairSpec ==
    /\ Spec
    /\ WF_vars(discovery_job_caught)
    /\ WF_vars(run_pending_idle)
    /\ WF_vars(run_pending_due)
    /\ WF_vars(sleep)

----------------------------------------------------------------------------
(* One cycle on its own: python nacos_discovery.py (lines 219-220), with   *)
(* every service listing and instance list up to the bounds.               *)

CycleServiceLists == DistinctSeqs(ServiceNames, MaxSvcs)

\* instance lists of healthy and unhealthy instances, repeats included, and
\* two lists with a record that lacks 'port'
CycleInstanceLists ==
    SeqsUpTo({InstUp, InstDown}, MaxInst)
        \cup {<<InstNoPort>>, <<InstUp, InstNoPort>>}

CycleInit ==
    \E fs \in {FreshFs, UsedFs} : Start("script", "authenticate", fs, Unpinned)

CycleNext ==
    \/ \E r \in AuthResponses : authenticate(r)
    \/ \E r \in ServicesResponses(CycleServiceLists) : get_services(r)
    \/ \E r \in InstancesResponses(CycleInstanceLists) :
           get_service_instances(r)
    \/ main_extend
    \/ \E ok \in BOOLEAN : makedirs(ok)
    \/ \E ok \in BOOLEAN : open_output(ok)
    \/ \E ok \in BOOLEAN, k \in 0..Len(all_targets) : json_dump(ok, k)
    \/ \E ok \in BOOLEAN : copy_open(ok)
    \/ \E ok \in BOOLEAN : copy_write(ok)
    \/ main_reraise
    \/ main_return

CycleSpec == CycleInit /\ [][CycleNext]_vars

----------------------------------------------------------------------------
(* The scheduler against a fixed world: the registry holds the same         *)
(* services and instances, and every call has the same outcome, in each of  *)
(* MaxRuns cycles.                                                           *)

Worlds ==
    [pinned : {TRUE},
     found : {FreshFs, UsedFs},
     auth : {r \in AuthResponses : r.token \in {NoneToken, "tok-1"}},
     svc : ServicesResponses(SchedServiceLists),
     inst : [SchedNames -> InstancesResponses(SchedInstanceLists)],
     io : {"none"} \cup PublishSteps,
     runs : {<<>>}]

PinnedInit == \E w \in Worlds : Start("start", "off", w.found, w)

PinnedNext ==
    \/ run_scheduler_first
    \/ Len(world.runs) < MaxRuns /\ run_pending_due
    \/ run_pending_idle
    \/ sleep
    \/ discovery_job_caught
    \/ authenticate(world.auth)
    \/ get_services(world.svc)
    \/ pc = "get_service_instances"
           /\ get_service_instances(world.inst[services[idx]])
    \/ main_extend
    \/ makedirs(world.io # "makedirs")
    \/ open_output(world.io # "open")
    \/ json_dump(world.io # "dump",
                 IF world.io = "dump" THEN 0 ELSE Len(all_targets))
    \/ copy_open(world.io # "copy_open")
    \/ copy_write(world.io # "copy_write")
    \/ main_reraise
    \/ main_return

PinnedSpec == PinnedInit /\ [][PinnedNext]_vars

----------------------------------------------------------------------------
(* What a cycle has been told, read from its history. *)

\* the login failed: no response, a status that is not 2xx, or no token
AuthRejected(r) ==
    r.kind \in Failures \/ (r.kind = "body" /\ r.token \in {NoneToken, ""})

\* some instance record received in this cycle lacks 'ip' or 'port'
MalformedReceived ==
    \E i \in DOMAIN resp.inst :
        \E j \in DOMAIN resp.inst[i].hosts :
            ~({"ip", "port"} \subseteq DOMAIN resp.inst[i].hosts[j])

\* the positions of a cycle from the publish step on
Publishing == PublishSteps \cup {"main_done"}

----------------------------------------------------------------------------
(* C1: a cycle whose login is rejected, or that receives an instance record *)
(* without 'ip' or 'port', never reaches the publish step, and the working  *)
(* file and the copy in the watched directory are as they were when the     *)
(* cycle began.                                                              *)
C1_AbortBeforePublishLeavesFiles ==
    (AuthRejected(resp.auth) \/ MalformedReceived) =>
        /\ files = before.files
        /\ pc \notin Publishing

\* a later service's record lacks 'port', after an earlier service's targets
\* were built, with both files present from an earlier cycle
C1_Witness ==
    /\ pc = "job_except"
    /\ exc = [type |-> "KeyError", at |-> "generate_target_config"]
    /\ Len(resp.inst) = 2
    /\ before.files[output_path].exists
    /\ before.files[dest_path].exists

----------------------------------------------------------------------------
(* The document a cycle should have built from what it received: for each   *)
(* listed service in order, one target per instance of a successful lookup. *)

ListedServices == IF resp.svc.kind = "body" THEN resp.svc.doms ELSE <<>>

Returned(i) ==
    IF resp.inst[i].kind = "body" THEN resp.inst[i].hosts ELSE <<>>

\* the number of instances returned for the first n services
RECURSIVE ReturnedBefore(_)
ReturnedBefore(n) ==
    IF n = 0 THEN 0 ELSE ReturnedBefore(n - 1) + Len(Returned(n))

ExpectedTarget(i, j) ==
    LET address == Returned(i)[j].ip \o ":" \o ToString(Returned(i)[j].port)
    IN [targets |-> <<address>>,
        labels |-> [instance |-> address,
                    job |-> "nacos-discovery",
                    service |-> ListedServices[i]]]

\* targets is the concatenation of the targets of the first n services
IsDocumentOf(targets, n) ==
    /\ Len(targets) = ReturnedBefore(n)
    /\ \A i \in 1..n : \A j \in 1..Len(Returned(i)) :
           targets[ReturnedBefore(i - 1) + j] = ExpectedTarget(i, j)

\* the file in the watched directory that Prometheus reads
WatchedPath == <<".", "prometheus", "conf", "services.json">>

----------------------------------------------------------------------------
(* C7: when the publish step has run to its end, the watched directory     *)
(* exists and its services.json holds exactly what the working file holds, *)
(* which is the JSON text of the document built in this cycle and nothing  *)
(* of what either file held before.                                         *)
C7_PublishCompleteFilesMatch ==
    pc = "main_done" =>
        /\ watchDir
        /\ files[WatchedPath].exists
        /\ files[WatchedPath] = files[output_path]
        /\ files[output_path].text = JsonDump(all_targets)
        /\ IsDocumentOf(all_targets, Len(ListedServices))

\* the watched directory was absent when the cycle began
C7_Witness ==
    /\ pc = "main_done"
    /\ ~before.dir
    /\ Len(all_targets) = 4

----------------------------------------------------------------------------
(* C9: a cycle begins with an empty token; a rejected login leaves the      *)
(* token empty or None and the cycle makes no listing call and goes no      *)
(* further; every listing call carries the non-empty token that this        *)
(* cycle's own login returned.                                               *)
C9_ListingCallsCarryThisCyclesToken ==
    /\ pc = "authenticate" => token = ""
    /\ AuthRejected(resp.auth) =>
           /\ token \in {"", NoneToken}
           /\ resp.sent = {}
           /\ pc \notin {"get_services", "get_service_instances",
                         "generate_target_config"} \cup Publishing
    /\ resp.sent # {} =>
           /\ resp.auth.kind = "body"
           /\ resp.auth.token \notin {"", NoneToken}
           /\ resp.sent = {resp.auth.token}

\* a scheduled (not the first) cycle lists two services with its own token
C9_Witness ==
    /\ sched = "job76"
    /\ pc = "main_done"
    /\ resp.auth.kind = "body"
    /\ resp.sent = {"tok-2"}
    /\ Len(resp.inst) = 2

----------------------------------------------------------------------------
(* C8: the step in which a signal arrives ends the process with status 0,   *)
(* wherever the scheduler or the cycle stands, and leaves the files as they *)
(* are at that moment; nothing happens after the process has exited.        *)
C8_SignalExitsWithZero ==
    [][/\ (signalled' /\ ~signalled) =>
              /\ sched' = "exited"
              /\ exitCode' = 0
              /\ pc' = "off"
              /\ files' = files
              /\ watchDir' = watchDir
       /\ sched = "exited" => UNCHANGED vars]_vars

\* the signal arrived while the copy was writing: the working file is new,
\* the watched copy was cut to length zero, and the process has exited
C8_Witness ==
    /\ sched = "exited"
    /\ signalled
    /\ exitCode = 0
    /\ exc = [type |-> "SystemExit", at |-> "copy_write"]
    /\ before.files[WatchedPath].exists
    /\ files[WatchedPath] # files[output_path]

----------------------------------------------------------------------------
(* C4 and C10 speak of a cycle that has ended: main() has returned (line    *)
(* 214) or discovery_job has caught what main() raised (line 54).           *)

CycleEnded == pc \in {"main_done", "job_except"}

\* the cycle met a failure of one of the five kinds
SufferedFailure ==
    \/ AuthRejected(resp.auth)
    \/ resp.svc.kind \in Failures
    \/ \E i \in DOMAIN resp.inst : resp.inst[i].kind \in Failures
    \/ MalformedReceived
    \/ exc.type = "OSError"

----------------------------------------------------------------------------
(* C10, as claimed: a cycle that save_config aborted leaves the watched     *)
(* copy as it was before the cycle, and in every state outside the copy     *)
(* itself the watched copy is either equal to the working file or still the *)
(* complete file it was when the cycle began.                                *)
C10_WatchedCopyNeverTorn ==
    /\ (pc \in {"main_except", "job_except"} /\ exc.at \in PublishSteps) =>
           files[WatchedPath] = before.files[WatchedPath]
    /\ pc # "copy_write" =>
           \/ files[WatchedPath] = files[output_path]
           \/ files[WatchedPath] = before.files[WatchedPath]

\* the copy failed while writing: the cycle is aborted, the working file is
\* complete and the watched copy, which held a document, is empty
C10_TornCopy ==
    /\ pc = "job_except"
    /\ exc = [type |-> "OSError", at |-> "copy_write"]
    /\ before.files[WatchedPath].text # ""
    /\ files[WatchedPath] = File("")
    /\ files[output_path].text # ""

----------------------------------------------------------------------------
(* C2: once every listed service has been looked up, exactly one lookup     *)
(* having failed and no record being malformed, nothing but an I/O failure  *)
(* of the publish step stops the cycle, and the published document holds a  *)
(* target for every instance of the other services and no target labelled   *)
(* with the failing service.                                                 *)

FailedLookups == {i \in DOMAIN resp.inst : resp.inst[i].kind \in Failures}

LookupsDone ==
    /\ resp.auth.kind = "body"
    /\ resp.svc.kind = "body"
    /\ Len(resp.inst) = Len(resp.svc.doms)

C2_OneFailedLookupDropsOnlyThatService ==
    (LookupsDone /\ Cardinality(FailedLookups) = 1 /\ ~MalformedReceived) =>
        /\ exc.type \in {"none", "OSError"}
        /\ exc.at \in {"off"} \cup PublishSteps
        /\ pc = "main_done" =>
               /\ files[WatchedPath] = File(JsonDump(all_targets))
               /\ \A i \in DOMAIN resp.inst \ FailedLookups :
                      \A j \in DOMAIN Returned(i) :
                          \E n \in DOMAIN all_targets :
                              all_targets[n] = ExpectedTarget(i, j)
               /\ \A i \in FailedLookups : \A n \in DOMAIN all_targets :
                      all_targets[n].labels.service # resp.svc.doms[i]

\* the lookup of the first of the listed services failed, the others have
\* instances, and the cycle has published
C2_Witness ==
    /\ pc = "main_done"
    /\ LookupsDone
    /\ Len(resp.svc.doms) = MaxSvcs
    /\ FailedLookups = {1}
    /\ \A i \in 2..Len(resp.inst) : Len(Returned(i)) = 2
    /\ files[WatchedPath].text # "[]"

----------------------------------------------------------------------------
(* C5: at every point of the loop and after it, all_targets is, for the     *)
(* services handled so far in listing order, one target per returned        *)
(* instance in instance order, with targets = [ip:port] and the labels      *)
(* instance = ip:port, job = nacos-discovery, service = the service name;   *)
(* so a service has as many entries as instances were returned for it,      *)
(* unhealthy and repeated ones included.                                     *)
C5_OneTargetPerInstanceInOrder ==
    pc \in {"get_service_instances", "generate_target_config"}
              \cup Publishing =>
        /\ idx - 1 <= Len(ListedServices)
        /\ pc \in Publishing => idx - 1 = Len(ListedServices)
        /\ IsDocumentOf(all_targets, idx - 1)

\* two services, one of them with the same unhealthy instance twice
C5_Witness ==
    /\ pc = "main_done"
    /\ Len(resp.inst) = 2
    /\ Returned(1) = <<InstDown, InstDown>>
    /\ Returned(2) = <<InstUp, InstDown>>
    /\ Len(all_targets) = 4

----------------------------------------------------------------------------
(* C6: against a fixed world, every further cycle leaves each file exactly  *)
(* as the first cycle left it, whatever the first cycle found.              *)
C6_SecondCycleChangesNothing ==
    world.pinned =>
        \A i \in DOMAIN world.runs : world.runs[i] = world.runs[1]

\* both cycles published a document of two services over an earlier run's
\* files
C6_Witness ==
    /\ world.pinned
    /\ Len(world.runs) = 2
    /\ world.found = UsedFs
    /\ world.auth.kind = "body"
    /\ world.io = "none"
    /\ Len(world.svc.doms) = 2
    /\ world.runs[2][WatchedPath] = world.runs[2][output_path]
    /\ world.runs[2][WatchedPath] # UsedFs.watch
    /\ world.runs[2][WatchedPath].text # "[]"

----------------------------------------------------------------------------
(* C3: the scheduler reaches Exited only through a signal, and whenever an  *)
(* exception of a cycle arrives at discovery_job, a further cycle starts    *)
(* unless a signal arrives first.                                           *)
C3_FailedCycleNeverStopsScheduler ==
    /\ [](sched = "exited" => signalled)
    /\ (pc = "job_except") ~> (pc = "authenticate" \/ signalled)

\* a malformed record's KeyError has arrived at discovery_job
C3_Witness ==
    /\ sched \in {"job72", "job76"}
    /\ pc = "job_except"
    /\ exc.type = "KeyError"
    /\ ~signalled

====
